---------------------------- MODULE Spec2Model ----------------------------
(***************************************************************************)
(* Model of the order repository of thiagobgarc/orders-api                 *)
(* (repository/order/redis.go): the five operations of RedisRepo against   *)
(* a Redis store holding one string record per order key and the set       *)
(* "orders" of order keys.  Every store command the code issues is one     *)
(* step; a command may fail (network error, cancelled context), and a      *)
(* failed write may or may not have been applied by the server.            *)
(***************************************************************************)
EXTENDS Integers, Sequences, FiniteSets, TLC

(***************************************************************************)
(* Bounds                                                                  *)
(***************************************************************************)
MaxID == 2          \* order ids are 1..MaxID
NumCustomers == 2   \* customer ids are 1..NumCustomers
NumProcs == 2       \* callers of the repository
MaxSize == 2        \* page sizes are 0..MaxSize

IDs == 1..MaxID
Procs == 1..NumProcs

(***************************************************************************)
(* model/order.go                                                          *)
(***************************************************************************)
\* a Go slice or pointer: nil, or a value
NilVal == [isNil |-> TRUE, val |-> <<>>]

Some(v) == [isNil |-> FALSE, val |-> <<v>>]

LineItem == [ItemID : {1}, Quantity : {2}, Price : {500}]

\* the LineItems slices used as inputs: nil, empty, one item
LineItemSlices ==
    {NilVal, [isNil |-> FALSE, val |-> <<>>]} \cup
    {[isNil |-> FALSE, val |-> <<li>>] : li \in LineItem}

Order ==
    [OrderID : IDs, CustomerID : 1..NumCustomers,
     LineItems : LineItemSlices, CreatedAt : {NilVal, Some(7)}]

\* model.Order{}
ZeroOrder ==
    [OrderID |-> 0, CustomerID |-> 0, LineItems |-> NilVal, CreatedAt |-> NilVal]

\* the orders handed to Insert and Update
InputOrders ==
    {o \in Order : \/ o.CustomerID = 1 /\ o.LineItems.isNil /\ o.CreatedAt.isNil
                   \/ o.CustomerID = 2 /\ ~o.LineItems.isNil /\ ~o.CreatedAt.isNil
                                       /\ Len(o.LineItems.val) = 1}

(***************************************************************************)
(* encoding/json as used by the repository                                 *)
(***************************************************************************)
JSONNull == [kind |-> "null", elems |-> <<>>]

MarshalLineItem(li) ==
    <<<<"ItemID", li.ItemID>>, <<"Quantity", li.Quantity>>, <<"Price", li.Price>>>>

\* a nil slice written as an empty array instead of null
MarshalLineItemsNilAsEmpty(s) ==
    [kind |-> "array",
     elems |-> [i \in DOMAIN s.val |-> MarshalLineItem(s.val[i])]]

MarshalLineItems(s) ==
    IF s.isNil THEN JSONNull
    ELSE [kind |-> "array",
          elems |-> [i \in DOMAIN s.val |-> MarshalLineItem(s.val[i])]]

MarshalTime(t) ==
    IF t.isNil THEN JSONNull
    ELSE [kind |-> "string", elems |-> t.val]

\* json.Marshal(order): an object with one member per field, in field order
Marshal(o) ==
    [kind |-> "object",
     OrderID |-> o.OrderID,
     CustomerID |-> o.CustomerID,
     LineItems |-> MarshalLineItems(o.LineItems),
     CreatedAt |-> MarshalTime(o.CreatedAt)]

UnmarshalLineItem(m) ==
    [ItemID |-> m[1][2], Quantity |-> m[2][2], Price |-> m[3][2]]

UnmarshalLineItems(j) ==
    IF j.kind = "null" THEN NilVal
    ELSE [isNil |-> FALSE,
          val |-> [i \in DOMAIN j.elems |-> UnmarshalLineItem(j.elems[i])]]

UnmarshalTime(j) ==
    IF j.kind = "null" THEN NilVal
    ELSE [isNil |-> FALSE, val |-> j.elems]

\* json.Unmarshal([]byte(value), &order): <<ok, order>>
Unmarshal(d) ==
    IF d.kind # "object" THEN <<FALSE, ZeroOrder>>
    ELSE <<TRUE, [OrderID |-> d.OrderID,
                  CustomerID |-> d.CustomerID,
                  LineItems |-> UnmarshalLineItems(d.LineItems),
                  CreatedAt |-> UnmarshalTime(d.CreatedAt)]>>

(***************************************************************************)
(* repository/order/redis.go                                               *)
(***************************************************************************)
\* fmt.Sprintf("order:%d", id)
orderIDKey(id) == "order:" \o ToString(id)


\* the MATCH pattern FindAll passes to SScan
ScanMatch == "x"

\* Redis scans with COUNT 10 when no COUNT is sent (go-redis sends none for 0)
DefaultScanCount == 10

VARIABLES
    records,       \* the string keys of the store: key -> stored value
    index,         \* the members of the set "orders"
    pc,            \* per caller: the store command it issues next
    call,          \* per caller: the operation in progress and its arguments
    txn,           \* per caller: commands queued on its TxPipeline
    ret,           \* per caller: what the operation returned
    pre,           \* per caller: the store as it was when the call started
    fault,         \* per caller: the command that failed, if one did, and
                   \*             whether the server had applied it
    deletedIDs,    \* ids deleted with success and not passed to Insert since
    lastInserted,  \* id -> order of a successful Insert into a free key,
                   \*       with no Update or DeletedByID of the id since
    local,         \* per caller: keys and cursor FindAll got from SScan
    lastWrite,     \* key -> the caller whose SetXX last changed its record,
                   \*        while no other command has changed it since and
                   \*        the caller holds the result of that call
    paging         \* a walk through all the pages of FindAll, when one runs

vars == <<records, index, pc, call, txn, ret, pre, fault, deletedIDs, lastInserted,
          local, lastWrite, paging>>

Pages == [Size : 0..MaxSize, Offset : 0..MaxID]

NoCall == [name |-> "none", order |-> ZeroOrder, id |-> 0,
           page |-> [Size |-> 0, Offset |-> 0]]

NoRet == [err |-> "none", orders |-> <<>>, cursor |-> 0]

EmptyStore == [records |-> <<>>, index |-> {}]

NoFault == [at |-> "none", applied |-> FALSE]

NoLocal == [keys |-> <<>>, cursor |-> 0]

NoPaging == [active |-> FALSE, finished |-> FALSE, got |-> <<>>]

Min(a, b) == IF a < b THEN a ELSE b

Without(f, k) == [x \in DOMAIN f \ {k} |-> f[x]]

(***************************************************************************)
(* The store commands, as Redis executes them                              *)
(***************************************************************************)
\* a plain SET in place of SETNX
SetNXOverwrites(recs, k, v) == (k :> v) @@ recs

\* SETNX key value: sets only a key that does not exist
SetNX(recs, k, v) == IF k \in DOMAIN recs THEN recs ELSE (k :> v) @@ recs

\* a SET XX that writes nothing
SetXXKeeps(recs, k, v) == recs

\* a plain SET in place of SET XX
SetXXCreates(recs, k, v) == (k :> v) @@ recs

\* SET key value XX: sets only a key that exists
SetXX(recs, k, v) == IF k \in DOMAIN recs THEN (k :> v) @@ recs ELSE recs

\* a DEL that removes nothing
DelKeeps(recs, k) == recs

\* DEL key
Del(recs, k) == Without(recs, k)

\* SADD orders key
SAdd(idx, k) == idx \cup {k}

\* an SREM that removes nothing
SRemKeeps(idx, k) == idx

\* SREM orders key
SRem(idx, k) == idx \ {k}

\* MULTI ... EXEC: the queued commands applied to the index, in order
RECURSIVE Exec(_, _)
Exec(idx, queue) ==
    IF queue = <<>> THEN idx
    ELSE LET c == Head(queue)
             idx1 == IF c.cmd = "SADD" THEN SAdd(idx, c.key) ELSE SRem(idx, c.key)
         IN  Exec(idx1, Tail(queue))

\* glob matching of a pattern without metacharacters
GlobMatch(pattern, s) == s = pattern

\* a member of the set "orders" that the pattern ScanMatch matches; no
\* operation of the repository adds it
ForeignKey == "x"

\* the slots SSCAN walks: slot i holds the key of id i when it is a member,
\* the last slot a member that is no order key
ScanOrder == [i \in 1..(MaxID + 1) |-> IF i \in IDs THEN orderIDKey(i) ELSE ForeignKey]

\* SSCAN orders cursor MATCH match COUNT count: <<keys, next cursor>>.
\* COUNT slots are walked from the cursor and the members found in them are
\* filtered by the pattern; a set with no member is scanned in one call.
SScan(idx, cursor, match, count) ==
    IF idx = {} THEN <<<<>>, 0>> ELSE
    LET n == IF count > 0 THEN count ELSE DefaultScanCount
        last == Min(cursor + n, Len(ScanOrder))
        member(k) == k \in idx /\ GlobMatch(match, k)
    IN  <<SelectSeq(SubSeq(ScanOrder, cursor + 1, last), member),
          IF last >= Len(ScanOrder) THEN 0 ELSE last>>

\* MGET keys...: one reply per key, nil for a key that does not exist
MGet(recs, keys) ==
    [i \in DOMAIN keys |->
        IF keys[i] \in DOMAIN recs THEN Some(recs[keys[i]]) ELSE NilVal]

(***************************************************************************)
(* Init                                                                    *)
(***************************************************************************)
\* no caller has called yet
NoCalls ==
    /\ pc = [p \in Procs |-> "idle"]
    /\ call = [p \in Procs |-> NoCall]
    /\ txn = [p \in Procs |-> <<>>]
    /\ ret = [p \in Procs |-> NoRet]
    /\ pre = [p \in Procs |-> EmptyStore]
    /\ fault = [p \in Procs |-> NoFault]
    /\ deletedIDs = {}
    /\ lastInserted = <<>>
    /\ local = [p \in Procs |-> NoLocal]
    /\ lastWrite = <<>>
    /\ paging = NoPaging

Init ==
    /\ records = <<>>
    /\ index = {}
    /\ NoCalls

AllIdle == \A q \in Procs : pc[q] = "idle"

Snapshot == [records |-> records, index |-> index]

\* the call is entered: arguments bound, TxPipeline() gives an empty queue
Enter(p, c, first) ==
    /\ pc[p] = "idle"
    /\ pc' = [pc EXCEPT ![p] = first]
    /\ call' = [call EXCEPT ![p] = c]
    /\ txn' = [txn EXCEPT ![p] = <<>>]
    /\ ret' = [ret EXCEPT ![p] = NoRet]
    /\ pre' = [pre EXCEPT ![p] = Snapshot]
    /\ fault' = [fault EXCEPT ![p] = NoFault]
    /\ local' = [local EXCEPT ![p] = NoLocal]
    /\ UNCHANGED <<records, index, lastWrite>>

\* the call returns
Finish(p, r) ==
    /\ pc' = [pc EXCEPT ![p] = "done"]
    /\ ret' = [ret EXCEPT ![p] = r]
    /\ UNCHANGED fault

Result(e) == [err |-> e, orders |-> <<>>, cursor |-> 0]

\* the command cmd of caller p has changed the record of key k, or has not
NoteWrite(p, k, cmd, changed) ==
    lastWrite' = IF ~changed THEN lastWrite
                 ELSE IF cmd = "SetXX" THEN (k :> p) @@ lastWrite
                 ELSE Without(lastWrite, k)

\* the store command at hand fails and the call returns the wrapped error
Failed(p, applied) ==
    /\ pc' = [pc EXCEPT ![p] = "done"]
    /\ ret' = [ret EXCEPT ![p] = Result("StoreError")]
    /\ fault' = [fault EXCEPT ![p] = [at |-> pc[p], applied |-> applied]]

(***************************************************************************)
(* Insert                                                                  *)
(***************************************************************************)
CallInsert(p) ==
    \E o \in InputOrders :
        /\ Enter(p, [NoCall EXCEPT !.name = "Insert", !.order = o, !.id = o.OrderID],
                 "ins_setnx")
        /\ deletedIDs' = deletedIDs \ {o.OrderID}
        /\ UNCHANGED <<lastInserted, paging>>

\* r.Client.SetNX runs on the client, outside the pipeline; only its error
\* is looked at.  txn.SAdd queues the index add; the test that follows it
\* reads the err of json.Marshal, which is nil here.
InsertSetNX(p) ==
    /\ pc[p] = "ins_setnx"
    /\ records' = SetNX(records, orderIDKey(call[p].order.OrderID),
                        Marshal(call[p].order))
    /\ txn' = [txn EXCEPT ![p] =
                  Append(@, [cmd |-> "SADD", key |-> orderIDKey(call[p].order.OrderID)])]
    /\ pc' = [pc EXCEPT ![p] = "ins_commit"]
    /\ NoteWrite(p, orderIDKey(call[p].order.OrderID), "SetNX",
                 orderIDKey(call[p].order.OrderID) \notin DOMAIN records)
    /\ UNCHANGED <<index, call, ret, pre, fault, deletedIDs, lastInserted, local, paging>>

\* SetNX returns an error: txn.Discard() and the error is returned
InsertSetNXFail(p) ==
    /\ pc[p] = "ins_setnx"
    /\ \E applied \in BOOLEAN :
          /\ records' = IF applied
                        THEN SetNX(records, orderIDKey(call[p].order.OrderID),
                                   Marshal(call[p].order))
                        ELSE records
          /\ NoteWrite(p, orderIDKey(call[p].order.OrderID), "SetNX",
                       applied /\ orderIDKey(call[p].order.OrderID) \notin DOMAIN records)
          /\ Failed(p, applied)
    /\ txn' = [txn EXCEPT ![p] = <<>>]
    /\ UNCHANGED <<index, call, pre, deletedIDs, lastInserted, local, paging>>

\* the pipeline is sent as MULTI/EXEC and succeeds
InsertCommit(p) ==
    /\ pc[p] = "ins_commit"
    /\ index' = Exec(index, txn[p])
    /\ txn' = [txn EXCEPT ![p] = <<>>]
    /\ Finish(p, Result("nil"))
    /\ lastInserted' =
          IF orderIDKey(call[p].id) \in DOMAIN pre[p].records
          THEN lastInserted
          ELSE (call[p].id :> call[p].order) @@ lastInserted
    /\ UNCHANGED <<records, call, pre, deletedIDs, local,
                 lastWrite, paging>>

InsertCommitFail(p) ==
    /\ pc[p] = "ins_commit"
    /\ \E applied \in BOOLEAN :
          /\ index' = IF applied THEN Exec(index, txn[p]) ELSE index
          /\ Failed(p, applied)
    /\ txn' = [txn EXCEPT ![p] = <<>>]
    /\ UNCHANGED <<records, call, pre, deletedIDs, lastInserted, local,
                 lastWrite, paging>>

(***************************************************************************)
(* FindByID                                                                *)
(***************************************************************************)
CallFindByID(p) ==
    \E id \in IDs :
        /\ Enter(p, [NoCall EXCEPT !.name = "FindByID", !.id = id], "find_get")
        /\ UNCHANGED <<deletedIDs, lastInserted, paging>>

\* a missing key answered with the zero Order and no error
FindByIDResultZeroOnMiss(recs, id) ==
    LET key == orderIDKey(id) IN
    IF key \notin DOMAIN recs
    THEN [err |-> "nil", orders |-> <<ZeroOrder>>, cursor |-> 0]
    ELSE LET u == Unmarshal(recs[key]) IN
         IF ~u[1] THEN Result("DecodingError")
         ELSE [err |-> "nil", orders |-> <<u[2]>>, cursor |-> 0]

\* what FindByID returns when Get answers
FindByIDResult(recs, id) ==
    LET key == orderIDKey(id) IN
    IF key \notin DOMAIN recs THEN Result("ErrNotExist")
    ELSE LET u == Unmarshal(recs[key]) IN
         IF ~u[1] THEN Result("DecodingError")
         ELSE [err |-> "nil", orders |-> <<u[2]>>, cursor |-> 0]

FindByIDGet(p) ==
    /\ pc[p] = "find_get"
    /\ Finish(p, FindByIDResult(records, call[p].id))
    /\ UNCHANGED <<records, index, call, txn, pre, deletedIDs, lastInserted, local,
                 lastWrite, paging>>

FindByIDGetFail(p) ==
    /\ pc[p] = "find_get"
    /\ Failed(p, FALSE)
    /\ UNCHANGED <<records, index, call, txn, pre, deletedIDs, lastInserted, local,
                 lastWrite, paging>>

(***************************************************************************)
(* DeletedByID                                                             *)
(***************************************************************************)
CallDeletedByID(p) ==
    \E id \in IDs :
        /\ Enter(p, [NoCall EXCEPT !.name = "DeletedByID", !.id = id], "del_del")
        /\ lastInserted' = Without(lastInserted, id)
        /\ UNCHANGED <<deletedIDs, paging>>

\* r.Client.Del runs on the client, outside the pipeline.  DEL answers the
\* number of keys removed and no error, also for a key that does not exist,
\* so the redis.Nil test never holds.  txn.SRem queues the index removal.
DeletedByIDDel(p) ==
    /\ pc[p] = "del_del"
    /\ records' = Del(records, orderIDKey(call[p].id))
    /\ txn' = [txn EXCEPT ![p] =
                  Append(@, [cmd |-> "SREM", key |-> orderIDKey(call[p].id)])]
    /\ pc' = [pc EXCEPT ![p] = "del_exec"]
    /\ NoteWrite(p, orderIDKey(call[p].id), "Del",
                 orderIDKey(call[p].id) \in DOMAIN records)
    /\ UNCHANGED <<index, call, ret, pre, fault, deletedIDs, lastInserted, local, paging>>

DeletedByIDDelFail(p) ==
    /\ pc[p] = "del_del"
    /\ \E applied \in BOOLEAN :
          /\ records' = IF applied THEN Del(records, orderIDKey(call[p].id))
                        ELSE records
          /\ NoteWrite(p, orderIDKey(call[p].id), "Del",
                       applied /\ orderIDKey(call[p].id) \in DOMAIN records)
          /\ Failed(p, applied)
    /\ UNCHANGED <<index, call, txn, pre, deletedIDs, lastInserted, local, paging>>

DeletedByIDExec(p) ==
    /\ pc[p] = "del_exec"
    /\ index' = Exec(index, txn[p])
    /\ txn' = [txn EXCEPT ![p] = <<>>]
    /\ Finish(p, Result("nil"))
    /\ deletedIDs' = deletedIDs \cup {call[p].id}
    /\ UNCHANGED <<records, call, pre, lastInserted, local,
                 lastWrite, paging>>

DeletedByIDExecFail(p) ==
    /\ pc[p] = "del_exec"
    /\ \E applied \in BOOLEAN :
          /\ index' = IF applied THEN Exec(index, txn[p]) ELSE index
          /\ Failed(p, applied)
    /\ txn' = [txn EXCEPT ![p] = <<>>]
    /\ UNCHANGED <<records, call, pre, deletedIDs, lastInserted, local,
                 lastWrite, paging>>

(***************************************************************************)
(* Update                                                                  *)
(***************************************************************************)
CallUpdate(p) ==
    \E o \in InputOrders :
        /\ Enter(p, [NoCall EXCEPT !.name = "Update", !.order = o, !.id = o.OrderID],
                 "upd_setxx")
        /\ lastInserted' = Without(lastInserted, o.OrderID)
        /\ UNCHANGED <<deletedIDs, paging>>

\* an Update that also adds the key to the index
UpdateSetXXAddsToIndex(p) ==
    /\ pc[p] = "upd_setxx"
    /\ records' = SetXX(records, orderIDKey(call[p].order.OrderID),
                        Marshal(call[p].order))
    /\ index' = SAdd(index, orderIDKey(call[p].order.OrderID))
    /\ NoteWrite(p, orderIDKey(call[p].order.OrderID), "SetXX",
                 orderIDKey(call[p].order.OrderID) \in DOMAIN records)
    /\ Finish(p, Result("nil"))
    /\ UNCHANGED <<call, txn, pre, deletedIDs, lastInserted, local, paging>>

\* SET key value XX answers a nil reply for a key that does not exist, which
\* the client's BoolCmd turns into false with no error: only the error is
\* looked at, so the redis.Nil test never holds.
UpdateSetXX(p) ==
    /\ pc[p] = "upd_setxx"
    /\ records' = SetXX(records, orderIDKey(call[p].order.OrderID),
                        Marshal(call[p].order))
    /\ NoteWrite(p, orderIDKey(call[p].order.OrderID), "SetXX",
                 orderIDKey(call[p].order.OrderID) \in DOMAIN records)
    /\ Finish(p, Result("nil"))
    /\ UNCHANGED <<index, call, txn, pre, deletedIDs, lastInserted, local, paging>>

UpdateSetXXFail(p) ==
    /\ pc[p] = "upd_setxx"
    /\ \E applied \in BOOLEAN :
          /\ records' = IF applied
                        THEN SetXX(records, orderIDKey(call[p].order.OrderID),
                                   Marshal(call[p].order))
                        ELSE records
          /\ NoteWrite(p, orderIDKey(call[p].order.OrderID), "SetXX",
                       applied /\ orderIDKey(call[p].order.OrderID) \in DOMAIN records)
          /\ Failed(p, applied)
    /\ UNCHANGED <<index, call, txn, pre, deletedIDs, lastInserted, local, paging>>

(***************************************************************************)
(* FindAll                                                                 *)
(***************************************************************************)
CallFindAll(p) ==
    \E page \in Pages :
        /\ Enter(p, [NoCall EXCEPT !.name = "FindAll", !.page = page], "all_sscan")
        /\ UNCHANGED <<deletedIDs, lastInserted, paging>>

\* a loop that skips a reply that does not decode and goes on
DecodeAllSkipsBad(xs, cursor) ==
    IF \E i \in DOMAIN xs : xs[i].isNil THEN Result("panic")
    ELSE [err |-> "nil",
          orders |-> SelectSeq([i \in DOMAIN xs |-> Unmarshal(xs[i].val[1])[2]],
                               LAMBDA o : o # ZeroOrder),
          cursor |-> cursor]

\* the loop over the MGet replies: x.(string) panics on a nil reply, a
\* reply that does not decode ends the call with an error
DecodeAll(xs, cursor) ==
    LET bad == {i \in DOMAIN xs : xs[i].isNil \/ ~Unmarshal(xs[i].val[1])[1]} IN
    IF bad = {}
    THEN [err |-> "nil",
          orders |-> [i \in DOMAIN xs |-> Unmarshal(xs[i].val[1])[2]],
          cursor |-> cursor]
    ELSE LET i == CHOOSE j \in bad : \A k \in bad : j <= k IN
         IF xs[i].isNil THEN Result("panic") ELSE Result("DecodingError")

\* SScan answers: a page of no keys returns at once, with Orders empty and
\* Cursor left at its zero value; otherwise the keys are fetched next
FindAllSScan(p) ==
    /\ pc[p] = "all_sscan"
    /\ LET scan == SScan(index, call[p].page.Offset, ScanMatch, call[p].page.Size) IN
          /\ local' = [local EXCEPT ![p] = [keys |-> scan[1], cursor |-> scan[2]]]
          /\ IF Len(scan[1]) = 0
             THEN Finish(p, Result("nil"))
             ELSE /\ pc' = [pc EXCEPT ![p] = "all_mget"]
                  /\ UNCHANGED <<ret, fault>>
    /\ UNCHANGED <<records, index, call, txn, pre, deletedIDs, lastInserted,
                 lastWrite, paging>>

FindAllSScanFail(p) ==
    /\ pc[p] = "all_sscan"
    /\ Failed(p, FALSE)
    /\ UNCHANGED <<records, index, call, txn, pre, deletedIDs, lastInserted, local,
                 lastWrite, paging>>

\* MGet answers and the replies are decoded in order
FindAllMGet(p) ==
    /\ pc[p] = "all_mget"
    /\ Finish(p, DecodeAll(MGet(records, local[p].keys), local[p].cursor))
    /\ UNCHANGED <<records, index, call, txn, pre, deletedIDs, lastInserted, local,
                 lastWrite, paging>>

FindAllMGetFail(p) ==
    /\ pc[p] = "all_mget"
    /\ Failed(p, FALSE)
    /\ UNCHANGED <<records, index, call, txn, pre, deletedIDs, lastInserted, local,
                 lastWrite, paging>>

(***************************************************************************)
(* Specifications                                                          *)
(***************************************************************************)
\* the caller takes the result and is free to call again
Return(p) ==
    /\ pc[p] = "done"
    /\ pc' = [pc EXCEPT ![p] = "idle"]
    /\ call' = [call EXCEPT ![p] = NoCall]
    /\ ret' = [ret EXCEPT ![p] = NoRet]
    /\ pre' = [pre EXCEPT ![p] = EmptyStore]
    /\ fault' = [fault EXCEPT ![p] = NoFault]
    /\ local' = [local EXCEPT ![p] = NoLocal]
    /\ lastWrite' = [k \in {j \in DOMAIN lastWrite : lastWrite[j] # p} |-> lastWrite[k]]
    /\ UNCHANGED <<records, index, txn, deletedIDs, lastInserted, paging>>

\* calls one after the other, every store command answers
NextNoFault ==
    \E p \in Procs :
        \/ AllIdle /\ CallInsert(p)
        \/ AllIdle /\ CallFindByID(p)
        \/ AllIdle /\ CallDeletedByID(p)
        \/ AllIdle /\ CallUpdate(p)
        \/ AllIdle /\ CallFindAll(p)
        \/ InsertSetNX(p)
        \/ InsertCommit(p)
        \/ FindByIDGet(p)
        \/ DeletedByIDDel(p)
        \/ DeletedByIDExec(p)
        \/ UpdateSetXX(p)
        \/ FindAllSScan(p)
        \/ Return(p)

SpecNoFault == Init /\ [][NextNoFault]_vars

\* calls one after the other, any store command may fail
Next ==
    \E p \in Procs :
        \/ AllIdle /\ CallInsert(p)
        \/ AllIdle /\ CallFindByID(p)
        \/ AllIdle /\ CallDeletedByID(p)
        \/ AllIdle /\ CallUpdate(p)
        \/ AllIdle /\ CallFindAll(p)
        \/ InsertSetNX(p)
        \/ InsertSetNXFail(p)
        \/ InsertCommit(p)
        \/ InsertCommitFail(p)
        \/ FindByIDGet(p)
        \/ FindByIDGetFail(p)
        \/ DeletedByIDDel(p)
        \/ DeletedByIDDelFail(p)
        \/ DeletedByIDExec(p)
        \/ DeletedByIDExecFail(p)
        \/ UpdateSetXX(p)
        \/ UpdateSetXXFail(p)
        \/ FindAllSScan(p)
        \/ FindAllSScanFail(p)
        \/ Return(p)

Spec == Init /\ [][Next]_vars

\* orders stored by earlier calls
SeedOrders ==
    {o \in Order : /\ o.CustomerID = 1
                   /\ o.LineItems = [isNil |-> FALSE, val |-> <<>>]
                   /\ o.CreatedAt.isNil}

\* the stores earlier Inserts leave: some of the ids stored and indexed
SeedRecords ==
    {[k \in {orderIDKey(i) : i \in ids} |->
         Marshal(CHOOSE o \in SeedOrders : orderIDKey(o.OrderID) = k)] :
     ids \in SUBSET IDs}

InitConc ==
    /\ records \in SeedRecords
    /\ index = DOMAIN records
    /\ NoCalls

\* every caller makes one call to Insert, Update or DeletedByID; the calls
\* overlap, interleaved store command by store command, and every store
\* command answers
NextConc ==
    \E p \in Procs :
        \/ CallInsert(p)
        \/ CallDeletedByID(p)
        \/ CallUpdate(p)
        \/ InsertSetNX(p)
        \/ InsertCommit(p)
        \/ DeletedByIDDel(p)
        \/ DeletedByIDExec(p)
        \/ UpdateSetXX(p)

SpecConc == InitConc /\ [][NextConc]_vars

\* a stored string that is not the JSON of an order
Garbage == [kind |-> "garbage"]

\* what the store may hold when the repository is handed its client:
\* records and members of "orders" that this repository did not write
FoundKeys == {ForeignKey, orderIDKey(1)}

FoundValues == {Garbage} \cup {Marshal(o) : o \in {i \in InputOrders : i.OrderID = 1 /\ i.CustomerID = 1}}

FoundRecords == UNION {[ks -> FoundValues] : ks \in SUBSET FoundKeys}

InitStore ==
    /\ records \in FoundRecords
    /\ index \in SUBSET FoundKeys
    /\ NoCalls

\* calls one after the other on a store found with content, any store
\* command may fail
NextStore ==
    \E p \in Procs :
        \/ AllIdle /\ CallInsert(p)
        \/ AllIdle /\ CallFindByID(p)
        \/ AllIdle /\ CallDeletedByID(p)
        \/ AllIdle /\ CallUpdate(p)
        \/ AllIdle /\ CallFindAll(p)
        \/ InsertSetNX(p)
        \/ InsertSetNXFail(p)
        \/ InsertCommit(p)
        \/ InsertCommitFail(p)
        \/ FindByIDGet(p)
        \/ FindByIDGetFail(p)
        \/ DeletedByIDDel(p)
        \/ DeletedByIDDelFail(p)
        \/ DeletedByIDExec(p)
        \/ DeletedByIDExecFail(p)
        \/ UpdateSetXX(p)
        \/ UpdateSetXXFail(p)
        \/ FindAllSScan(p)
        \/ FindAllSScanFail(p)
        \/ FindAllMGet(p)
        \/ FindAllMGetFail(p)
        \/ Return(p)

SpecStore == InitStore /\ [][NextStore]_vars

(***************************************************************************)
(* A caller that walks all the pages of FindAll                            *)
(***************************************************************************)
\* FindAll is called with the initial cursor and a page size
StartPaging(p) ==
    \E size \in 0..MaxSize :
        /\ ~paging.active
        /\ Enter(p, [NoCall EXCEPT !.name = "FindAll",
                                   !.page = [Size |-> size, Offset |-> 0]],
                 "all_sscan")
        /\ paging' = [active |-> TRUE, finished |-> FALSE, got |-> <<>>]
        /\ UNCHANGED <<deletedIDs, lastInserted>>

\* a page has come back: its orders are kept, and FindAll is called again
\* with the cursor it returned unless that is the completion sentinel 0
PagingStep(p) ==
    /\ paging.active /\ ~paging.finished
    /\ pc[p] = "done" /\ call[p].name = "FindAll"
    /\ ret[p].err = "nil"
    /\ IF ret[p].cursor = 0
       THEN /\ paging' = [paging EXCEPT !.got = @ \o ret[p].orders,
                                        !.finished = TRUE]
            /\ UNCHANGED <<pc, call, ret, local>>
       ELSE /\ paging' = [paging EXCEPT !.got = @ \o ret[p].orders]
            /\ pc' = [pc EXCEPT ![p] = "all_sscan"]
            /\ call' = [call EXCEPT ![p].page.Offset = ret[p].cursor]
            /\ ret' = [ret EXCEPT ![p] = NoRet]
            /\ local' = [local EXCEPT ![p] = NoLocal]
    /\ UNCHANGED <<records, index, txn, pre, fault, deletedIDs, lastInserted,
                 lastWrite>>

\* the walk is over and the caller is free to call again
PagingStop(p) ==
    /\ paging.active /\ paging.finished
    /\ pc[p] = "done"
    /\ pc' = [pc EXCEPT ![p] = "idle"]
    /\ call' = [call EXCEPT ![p] = NoCall]
    /\ ret' = [ret EXCEPT ![p] = NoRet]
    /\ pre' = [pre EXCEPT ![p] = EmptyStore]
    /\ local' = [local EXCEPT ![p] = NoLocal]
    /\ paging' = NoPaging
    /\ UNCHANGED <<records, index, txn, fault, deletedIDs, lastInserted, lastWrite>>

\* calls one after the other, every store command answers, and no call
\* changes the store while the pages are walked
NextPaging ==
    \E p \in Procs :
        \/ AllIdle /\ CallInsert(p)
        \/ AllIdle /\ CallDeletedByID(p)
        \/ AllIdle /\ CallUpdate(p)
        \/ AllIdle /\ StartPaging(p)
        \/ InsertSetNX(p)
        \/ InsertCommit(p)
        \/ DeletedByIDDel(p)
        \/ DeletedByIDExec(p)
        \/ UpdateSetXX(p)
        \/ FindAllSScan(p)
        \/ PagingStep(p)
        \/ PagingStop(p)
        \/ ~paging.active /\ Return(p)

SpecPaging == Init /\ [][NextPaging]_vars

(***************************************************************************)
(* Properties                                                              *)
(***************************************************************************)
Returned(p, name) == pc[p] = "done" /\ call[p].name = name

CallKey(p) == orderIDKey(call[p].id)

NoCallInFlight == \A p \in Procs : pc[p] \in {"idle", "done"}

\* C1: between calls of Insert, Update and DeletedByID that all ran to
\* completion with no store failure, the index holds exactly the keys that
\* hold a record.
C1_IndexMatchesRecords == NoCallInFlight => index = DOMAIN records

\* a delete has returned and left another order stored and indexed
C1_Witness ==
    /\ \E p \in Procs : Returned(p, "DeletedByID") /\ CallKey(p) \in DOMAIN pre[p].records
    /\ index # {}
    /\ index = DOMAIN records

\* C2: Insert of an order whose key already holds a record returns an
\* error, never success.
C2_InsertExistingFails ==
    \A p \in Procs :
        Returned(p, "Insert") /\ CallKey(p) \in DOMAIN pre[p].records
            => ret[p].err \in {"AlreadyExists", "StoreError"}

\* C3: Insert of an order whose key already holds a record leaves that
\* record as it was, whatever the new order holds, at every step of the call.
C3_InsertKeepsExisting ==
    \A p \in Procs :
        call[p].name = "Insert" /\ CallKey(p) \in DOMAIN pre[p].records
            => /\ CallKey(p) \in DOMAIN records
               /\ records[CallKey(p)] = pre[p].records[CallKey(p)]

\* an Insert of a different order over an existing record has returned
C3_Witness ==
    \E p \in Procs :
        /\ Returned(p, "Insert")
        /\ CallKey(p) \in DOMAIN pre[p].records
        /\ pre[p].records[CallKey(p)] # Marshal(call[p].order)

\* C4: when the commit of Insert fails without having been applied, the
\* store holds neither the new record nor the new index entry once Insert
\* has returned its error.
C4_InsertAtomic ==
    \A p \in Procs :
        /\ Returned(p, "Insert")
        /\ fault[p].at = "ins_commit" /\ ~fault[p].applied
        /\ CallKey(p) \notin DOMAIN pre[p].records
        /\ CallKey(p) \notin pre[p].index
        => CallKey(p) \notin DOMAIN records /\ CallKey(p) \notin index

\* C5: when the exec of DeletedByID fails after the record delete was
\* issued, no key stays in the index whose record the call has deleted.
C5_DeleteAtomic ==
    \A p \in Procs :
        /\ Returned(p, "DeletedByID")
        /\ fault[p].at = "del_exec" /\ ~fault[p].applied
        /\ CallKey(p) \in DOMAIN pre[p].records
        /\ CallKey(p) \notin DOMAIN records
        => CallKey(p) \notin index

\* C6: Update of an order whose key holds no record fails with ErrNotExist
\* when the store answers, and never returns success.
C6_UpdateMissingFails ==
    \A p \in Procs :
        Returned(p, "Update") /\ CallKey(p) \notin DOMAIN pre[p].records
            => /\ ret[p].err # "nil"
               /\ fault[p].at = "none" => ret[p].err = "ErrNotExist"

\* C7: Update of an order whose key holds no record leaves the whole store
\* as it was: no record is created and the index is not modified.
C7_UpdateMissingNoChange ==
    \A p \in Procs :
        call[p].name = "Update" /\ CallKey(p) \notin DOMAIN pre[p].records
            => records = pre[p].records /\ index = pre[p].index

\* an Update of a missing key has returned, with another order stored
C7_Witness ==
    \E p \in Procs :
        /\ Returned(p, "Update")
        /\ CallKey(p) \notin DOMAIN pre[p].records
        /\ records # <<>>

\* C8: DeletedByID of an id whose key holds no record fails with
\* ErrNotExist when the store answers, and never returns success.
C8_DeleteMissingFails ==
    \A p \in Procs :
        Returned(p, "DeletedByID") /\ CallKey(p) \notin DOMAIN pre[p].records
            => /\ ret[p].err # "nil"
               /\ fault[p].at = "none" => ret[p].err = "ErrNotExist"

\* the keys of the page FindAll scans for a page descriptor
PageKeys(page) == SScan(index, page.Offset, ScanMatch, page.Size)[1]

InSeq(x, seq) == \E i \in DOMAIN seq : seq[i] = x

\* C9: after a DeletedByID(id) that returned success and until a later
\* Insert of the id, FindByID(id) fails with ErrNotExist when the store
\* answers, the key is not in the index, so in the keys of no FindAll page,
\* and no FindAll returns an order of that id.
C9_DeletedStaysGone ==
    \A id \in deletedIDs :
        /\ \A p \in Procs :
              Returned(p, "FindByID") /\ call[p].id = id /\ fault[p].at = "none"
                  => ret[p].err = "ErrNotExist" /\ ret[p].orders = <<>>
        /\ orderIDKey(id) \notin index
        /\ \A page \in Pages : ~InSeq(orderIDKey(id), PageKeys(page))
        /\ \A p \in Procs :
              Returned(p, "FindAll")
                  => \A i \in DOMAIN ret[p].orders : ret[p].orders[i].OrderID # id

\* FindByID has answered for an id deleted with success and not inserted
\* since, while another order is stored
C9_Witness ==
    \E p \in Procs :
        /\ Returned(p, "FindByID")
        /\ call[p].id \in deletedIDs
        /\ fault[p].at = "none"
        /\ records # <<>>

\* C10: after a successful Insert(o) into a free key, with no Update or
\* DeletedByID of the id since, FindByID(o.OrderID) returns an order equal
\* to o when the store answers.
C10_InsertThenFind ==
    \A p \in Procs :
        /\ Returned(p, "FindByID")
        /\ call[p].id \in DOMAIN lastInserted
        /\ fault[p].at = "none"
        => ret[p].err = "nil" /\ ret[p].orders = <<lastInserted[call[p].id]>>

\* FindByID has answered for an inserted order with a nil LineItems slice
C10_Witness ==
    \E p \in Procs :
        /\ Returned(p, "FindByID")
        /\ call[p].id \in DOMAIN lastInserted
        /\ fault[p].at = "none"
        /\ lastInserted[call[p].id].LineItems.isNil

\* the orders the store holds, decoded
StoredOrders == {Unmarshal(records[k])[2] : k \in DOMAIN records}

\* C11: with N orders inserted and no mutation meanwhile, the pages of
\* FindAll walked from the initial cursor to the completion sentinel hold
\* every stored order exactly once.
C11_PagingYieldsAll ==
    paging.finished =>
        /\ Len(paging.got) = Cardinality(DOMAIN records)
        /\ \A o \in StoredOrders :
              Cardinality({i \in DOMAIN paging.got : paging.got[i] = o}) = 1

OthersIdle(p, q) == \A r \in Procs \ {p, q} : pc[r] = "idle"

\* C12: of two overlapping Insert calls with the same OrderID into a store
\* with no record for the id, at most one returns success.
C12_OneInsertWins ==
    \A p, q \in Procs :
        /\ p # q
        /\ Returned(p, "Insert") /\ Returned(q, "Insert")
        /\ call[p].id = call[q].id
        /\ CallKey(p) \notin DOMAIN pre[p].records
        /\ CallKey(q) \notin DOMAIN pre[q].records
        /\ OthersIdle(p, q)
        => ~(ret[p].err = "nil" /\ ret[q].err = "nil")

\* C13: when the store answers, FindByID fails with ErrNotExist exactly
\* when no record is stored at the key; when a record is stored there and
\* decodes, it returns that record and no error.
C13_FindByIDNotFoundIffMissing ==
    \A p \in Procs :
        Returned(p, "FindByID") /\ fault[p].at = "none"
            => /\ ret[p].err = "ErrNotExist" <=> CallKey(p) \notin DOMAIN records
               /\ (CallKey(p) \in DOMAIN records /\ Unmarshal(records[CallKey(p)])[1])
                      => /\ ret[p].err = "nil"
                         /\ ret[p].orders = <<Unmarshal(records[CallKey(p)])[2]>>

\* FindByID has answered for a key whose record does not decode: an error
\* that is not ErrNotExist
C13_Witness ==
    \E p \in Procs :
        /\ Returned(p, "FindByID") /\ fault[p].at = "none"
        /\ CallKey(p) \in DOMAIN records
        /\ ~Unmarshal(records[CallKey(p)])[1]
        /\ \E k \in DOMAIN records : Unmarshal(records[k])[1]

\* C14: when two overlapping Update calls for the same stored OrderID carry
\* different orders and no other call runs, the record stored once both
\* have returned is the whole value of the call whose SetXX the store ran
\* last, and not the value from before the updates.
C14_LastUpdateWins ==
    \A p, q \in Procs :
        /\ p # q
        /\ Returned(p, "Update") /\ Returned(q, "Update")
        /\ call[p].id = call[q].id
        /\ call[p].order # call[q].order
        /\ CallKey(p) \in DOMAIN pre[p].records
        /\ CallKey(q) \in DOMAIN pre[q].records
        /\ OthersIdle(p, q)
        => /\ CallKey(p) \in DOMAIN lastWrite
           /\ lastWrite[CallKey(p)] \in {p, q}
           /\ CallKey(p) \in DOMAIN records
           /\ records[CallKey(p)] = Marshal(call[lastWrite[CallKey(p)]].order)
           /\ records[CallKey(p)] # pre[p].records[CallKey(p)]

\* two Updates of one id that both started from the same stored value have
\* returned
C14_Witness ==
    \E p, q \in Procs :
        /\ p # q
        /\ Returned(p, "Update") /\ Returned(q, "Update")
        /\ call[p].id = call[q].id
        /\ call[p].order # call[q].order
        /\ CallKey(p) \in DOMAIN pre[p].records
        /\ pre[p].records = pre[q].records
        /\ lastWrite[CallKey(p)] = p
        /\ OthersIdle(p, q)

\* C15: every successful FindAll returns as its cursor the next-page cursor
\* that SScan produced for the page, also when the page holds no key.
C15_CursorIsScanCursor ==
    \A p \in Procs :
        Returned(p, "FindAll") /\ ret[p].err = "nil"
            => ret[p].cursor = local[p].cursor

\* C16: no step of Update, successful or failed, changes the index.
C16_UpdateKeepsIndex ==
    [][\A p \in Procs : pc[p] = "upd_setxx" /\ pc'[p] # pc[p] => index' = index]_vars

\* a successful Update of a stored and indexed order has changed its record
C16_Witness ==
    \E p \in Procs :
        /\ Returned(p, "Update") /\ ret[p].err = "nil"
        /\ CallKey(p) \in DOMAIN pre[p].records
        /\ CallKey(p) \in index
        /\ records # pre[p].records

\* the keys of the page for which a record is stored that does not decode
BadKeys(p) ==
    {i \in DOMAIN local[p].keys :
        /\ local[p].keys[i] \in DOMAIN records
        /\ ~Unmarshal(records[local[p].keys[i]])[1]}

\* C17: when a record fetched for a FindAll page does not decode and the
\* store answers, FindAll returns a decoding error and no order at all.
C17_BadRecordFailsPage ==
    \A p \in Procs :
        Returned(p, "FindAll") /\ fault[p].at = "none" /\ BadKeys(p) # {}
            => ret[p].err = "DecodingError" /\ ret[p].orders = <<>>

\* FindAll has returned for a page with a record that does not decode
C17_Witness ==
    \E p \in Procs :
        Returned(p, "FindAll") /\ fault[p].at = "none" /\ BadKeys(p) # {}

\* C18: once an Insert(o) and a DeletedByID(o.OrderID) that overlapped,
\* interleaved store command by store command, have both returned, the key
\* is in the index exactly when a record is stored at it.
C18_InsertDeleteConsistent ==
    \A p, q \in Procs :
        /\ Returned(p, "Insert") /\ Returned(q, "DeletedByID")
        /\ call[p].id = call[q].id
        /\ OthersIdle(p, q)
        => (CallKey(p) \in index <=> CallKey(p) \in DOMAIN records)

=============================================================================
